---- MODULE Spec2Model ----
(***************************************************************************)
(* Calendar-Scrapper: the reconciliation engine and batch executor of      *)
(* functions/index.js (syncUserCalendar), for one subscriber's calendar.   *)
(*                                                                         *)
(* A canonical ScheduleEvent[] and the subscriber's selectedCourses are    *)
(* reconciled against the records of the remote calendar.  One run lists   *)
(* the remote records of the time window, decides per canonical event      *)
(* between no-op, update and create, applies the creates, then the         *)
(* updates, then the deletes, each in chunks of BATCH_SIZE concurrent      *)
(* calls, and returns {created, updated, deleted}.                         *)
(*                                                                         *)
(* Strings built by template literals are modelled as tuples of their      *)
(* parts; dates are day numbers; a slot start "9:00AM" is the record       *)
(* [h |-> 9, m |-> 0, p |-> "AM"].  The process's local zone is taken to   *)
(* be the zone of the dateTime values the provider returns.                *)
(*                                                                         *)
(* Further parts: the grid parser and fetchSheetData (the ingestion), the  *)
(* per-user loop of manualSync and dailyCalendarSync, and the rate limit   *)
(* of manualSync.                                                          *)
(***************************************************************************)
EXTENDS Integers, Sequences, FiniteSets, TLC

\* ------------------------------------------------------------------ bounds
MaxEvents == 2      \* longest canonical event list
MaxRecords == 2     \* inserts succeed while the calendar holds fewer records than this
MaxDate == 2        \* dates are the days TermStart..MaxDate
MaxOps == 6         \* length of the long operation lists (more than one chunk)
MaxNow == 1         \* the clock runs from 0 to MaxNow
MaxUsers == 2       \* most subscribers of one run
MaxInvocations == 2 \* most manualSync invocations in progress at once
MaxPassed == 11     \* invocations are followed until this many have passed the check

\* ------------------------------------------------------- program constants
TermStart == 1      \* timeMin of the list call: new Date('2025-12-29')
TimeMax == 2        \* timeMax of the list call: now + 3 months (first day not listed)
BATCH_SIZE == 5
HourLimit == 10     \* callsLastHour.length >= 10
DayLimit == 50      \* callsLastDay.length >= 50
Hour == 1           \* 60 * 60 * 1000 ms: the unit of the clock
Day == 24           \* 24 * 60 * 60 * 1000 ms

None == "none"      \* an absent string (undefined)
NoKey == <<>>        \* an absent composite string (undefined)

\* ------------------------------------------------------------ value domains
Names == {"SA"}
Sections == {"A", "B"}
Locations == {"PT1", "PT2"}
Professors == {"Prof X"}
Dates == TermStart..MaxDate
Starts == {[h |-> 9, m |-> 0, p |-> "AM"]}

\* courseCode = `${courseName}-${section}` (multi-section branch of parseCellEvents)
CourseCode(name, section) == <<name, section>>

Courses == {CourseCode(n, s) : n \in Names, s \in Sections}

\* id: `${courseCode}-${location}-${date.toISOString()}-${timeSlot.start}`
EventId(courseCode, location, date, start) == courseCode \o <<location, date, start>>

\* The event parseCellEvents builds for one matched line.
MkEvent(name, section, location, professor, date, start, isCancelled) ==
    [id |-> EventId(CourseCode(name, section), location, date, start),
     courseCode |-> CourseCode(name, section),
     courseName |-> name,
     section |-> section,
     location |-> location,
     professor |-> professor,
     date |-> date,
     start |-> start,
     isCancelled |-> isCancelled]

ActiveEvents ==
    {MkEvent(n, s, l, p, d, t, FALSE) :
        n \in Names, s \in Sections, l \in Locations, p \in Professors,
        d \in Dates, t \in Starts}

\* Cells struck through in red: the first day's slot of each course.
CancelledEvents ==
    {MkEvent(n, s, "PT1", p, TermStart, t, TRUE) :
        n \in Names, s \in Sections, p \in Professors, t \in Starts}

Events == ActiveEvents \cup CancelledEvents

\* The canonical lists an ingestion can store: any list of parsed events.
CanonicalLists == UNION {[1..n -> Events] : n \in 0..MaxEvents}

\* ------------------------------------------------------------ conversions
\* parseTimeForKey: [hours, minutes] in 24-hour form; the pattern is case
\* sensitive, an unmatched string gives [0, 0].
ParseTimeForKey(t) ==
    IF t.p \notin {"AM", "PM"} THEN <<0, 0>>
    ELSE IF t.p = "PM" /\ t.h # 12 THEN <<t.h + 12, t.m>>
    ELSE IF t.p = "AM" /\ t.h = 12 THEN <<0, t.m>>
    ELSE <<t.h, t.m>>

\* createDateTime: the local `YYYY-MM-DDTHH:MM:00` of a date and a slot time.
CreateDateTime(date, t) ==
    LET hours == IF t.p = "PM" /\ t.h # 12 THEN t.h + 12
                 ELSE IF t.p = "AM" /\ t.h = 12 THEN 0
                 ELSE t.h
    IN [timed |-> TRUE, date |-> date, h |-> hours, m |-> t.m]

\* summary: `${event.courseName}-${event.section}`
Summary(e) == <<e.courseName, e.section>>

\* The resource syncUserCalendar writes with events.insert and events.update.
Resource(e) ==
    [sid |-> e.id,
     cc |-> e.courseCode,
     app |-> TRUE,
     summary |-> Summary(e),
     location |-> e.location,
     descProf |-> e.professor,
     start |-> CreateDateTime(e.date, e.start)]

\* Records of the calendar this system did not write: no private metadata.
ForeignRecords ==
    {[sid |-> NoKey, cc |-> NoKey, app |-> FALSE, summary |-> s, location |-> None,
      descProf |-> None, start |-> [timed |-> TRUE, date |-> TermStart, h |-> 9, m |-> 0]] :
        s \in {<<"Lunch">>, <<"SA", "A">>}}

\* A day of MaxOps one-hour slots, all of one course in one room: more
\* operations than one chunk holds.
LongList(location) ==
    [k \in 1..MaxOps |->
        MkEvent("SA", "A", location, "Prof X", TermStart, [h |-> k, m |-> 0, p |-> "PM"], FALSE)]

VARIABLES
    canonical,        \* allEvents: the stored canonical ScheduleEvent[]
    selectedCourses,  \* user.selectedCourses
    remote,           \* the calendar: record id -> record
    pc,               \* "idle" | "create" | "update" | "delete" | "done"
    existing,         \* existingEvents of the run: the listed records, in list order
    userEvents,       \* the run's filtered events
    eventsToCreate,
    eventsToUpdate,
    eventsToDelete,
    sC, sU, sD,       \* per operation: "new" | "inflight" | "ok" | "fail"
    created, updated, deleted,
    outcome,          \* "returned" | "threw" at pc = "done"; "timeout" once cut off; else "none"
    clean,            \* consecutive fully successful runs with no change in between (capped at 2)
    fetch,            \* fetchSheetData: [pc, attempts, result]
    rawData,          \* the fetched grid: [rows, styles] (styles = rawData._xlsxCellStyles)
    now,              \* the clock new Date() reads
    parsed,           \* the courses and events of the latest parse of rawData
    parsedBefore,     \* those of the parse before it
    call,             \* the latest application of a parser function: [fn, args, result]
    userLoop,         \* the per-user loop of manualSync / dailyCalendarSync
    limiter           \* the rate limit of manualSync: the stored calls and the invocations

\* The variables of the reconciliation engine, and those of the ingestion.
svars == <<canonical, selectedCourses, remote, pc, existing, userEvents,
           eventsToCreate, eventsToUpdate, eventsToDelete, sC, sU, sD,
           created, updated, deleted, outcome, clean>>
ivars == <<fetch, rawData, now, parsed, parsedBefore, call>>
\* Those of the callers of syncUserCalendar.
lvars == <<userLoop, limiter>>
vars == <<svars, ivars, lvars>>

\* ------------------------------------------------------------------ helpers
Max(S) == CHOOSE x \in S : \A y \in S : y <= x
Min(S) == CHOOSE x \in S : \A y \in S : x <= y

\* The ids the provider hands out to inserted records.
RecordIds == 1..MaxRecords

\* Map.set in a forEach: the last record of the list with the key wins.
\* The index of that record in the list, 0 when the key is absent.
LastMatch(idx) == IF idx = {} THEN 0 ELSE Max(idx)

SeqRange(seq) == {seq[k] : k \in 1..Len(seq)}

Perms(S) == {f \in [1..Cardinality(S) -> S] : \A i, j \in DOMAIN f : f[i] = f[j] => i = j}

\* ------------------------------------------------------------ reconciliation
\* Mutant: the filter forgets the cancellation flag.
UserEvents_KeepCancelled(allEvents, selected) ==
    SelectSeq(allEvents, LAMBDA e : e.courseCode \in selected)

\* Mutant: the filter forgets the course selection.
UserEvents_NoSelection(allEvents, selected) ==
    SelectSeq(allEvents, LAMBDA e : ~e.isCancelled)

\* userEvents: the user's selected, not cancelled events.
UserEvents(allEvents, selected) ==
    SelectSeq(allEvents, LAMBDA e : e.courseCode \in selected /\ ~e.isCancelled)

\* calendar.events.list with timeMin = termStart and timeMax = now + 3 months.
InWindow(rec) == rec.start.date >= TermStart /\ rec.start.date < TimeMax

Listed(rem) == {id \in DOMAIN rem : InWindow(rem[id])}

\* baseKey of a canonical event: `${courseCode}-${dateStr}-${timeStr}`
EventBaseKey(e) == <<e.courseCode, e.date, ParseTimeForKey(e.start)>>

\* baseKey of a listed record, from its private courseCode and start.dateTime
RemoteBaseKey(rec) == <<rec.cc, rec.start.date, <<rec.start.h, rec.start.m>>>>

\* summaryKey of a listed record: `${e.summary}-${dateStr}-${timeStr}`
RemoteSummaryKey(rec) == <<rec.summary, rec.start.date, <<rec.start.h, rec.start.m>>>>

\* summaryKey of a canonical event: `${courseName}-${section}-${dateStr}-${timeStr}`
EventSummaryKey(e) == <<Summary(e), e.date, ParseTimeForKey(e.start)>>

\* existingEventsMap.get(event.id)
ExactMatch(ex, e) ==
    LastMatch({k \in 1..Len(ex) : ex[k].rec.sid # NoKey /\ ex[k].rec.sid = e.id})

\* existingEventsByBaseKey.get(baseKey): filled only for records with a scheduleEventId
BaseMatch(ex, e) ==
    LastMatch({k \in 1..Len(ex) : /\ ex[k].rec.sid # NoKey
                                   /\ ex[k].rec.cc # NoKey
                                   /\ ex[k].rec.start.timed
                                   /\ RemoteBaseKey(ex[k].rec) = EventBaseKey(e)})

\* existingEventsBySummaryKey.get(summaryKey)
SummaryMatch(ex, e) ==
    LastMatch({k \in 1..Len(ex) : /\ ex[k].rec.start.timed
                                   /\ ex[k].rec.summary # NoKey
                                   /\ RemoteSummaryKey(ex[k].rec) = EventSummaryKey(e)})

\* exactMatch.description?.includes(event.professor)
DescriptionIncludes(rec, professor) ==
    rec.descProf # None /\ (professor = "" \/ rec.descProf = professor)

\* The tier evaluation of one canonical event: what is scheduled for it.
Decide(ex, e) ==
    LET exact == ExactMatch(ex, e)
        base == BaseMatch(ex, e)
        summ == SummaryMatch(ex, e)
    IN IF exact # 0
       THEN IF \/ ex[exact].rec.location # e.location
               \/ ~DescriptionIncludes(ex[exact].rec, e.professor)
            THEN [kind |-> "update", existing |-> ex[exact].id]
            ELSE [kind |-> "noop", existing |-> ex[exact].id]
       ELSE IF base # 0 THEN [kind |-> "update", existing |-> ex[base].id]
       ELSE IF summ # 0 THEN [kind |-> "update", existing |-> ex[summ].id]
       ELSE [kind |-> "create", existing |-> 0]

\* Mutant: an event without an exact match is created even when a lower tier
\* matched it.
EventsToCreate_NoExact(ex, ue) == SelectSeq(ue, LAMBDA e : ExactMatch(ex, e) = 0)

EventsToCreate(ex, ue) == SelectSeq(ue, LAMBDA e : Decide(ex, e).kind = "create")

EventsToUpdate(ex, ue) ==
    LET upd == SelectSeq(ue, LAMBDA e : Decide(ex, e).kind = "update")
    IN [k \in 1..Len(upd) |-> [existing |-> Decide(ex, upd[k]).existing, new |-> upd[k]]]

\* Mutant: only records of unselected courses are deleted.
ShouldDelete_UnselectedOnly(rec, ue, selected) ==
    LET newIds == {e.id : e \in SeqRange(ue)}
        newBaseKeys == {EventBaseKey(e) : e \in SeqRange(ue)}
    IN IF rec.sid # NoKey /\ rec.sid \in newIds THEN FALSE
       ELSE IF rec.cc # NoKey /\ rec.start.timed /\ RemoteBaseKey(rec) \in newBaseKeys THEN FALSE
       ELSE rec.cc # NoKey /\ rec.cc \notin selected

\* Mutant: the last step deletes only records marked appCreated.
ShouldDelete_AppCreatedOnly(rec, ue, selected) ==
    LET newIds == {e.id : e \in SeqRange(ue)}
        newBaseKeys == {EventBaseKey(e) : e \in SeqRange(ue)}
    IN IF rec.sid # NoKey /\ rec.sid \in newIds THEN FALSE
       ELSE IF rec.cc # NoKey /\ rec.start.timed /\ RemoteBaseKey(rec) \in newBaseKeys THEN FALSE
       ELSE IF rec.cc # NoKey /\ rec.cc \notin selected THEN TRUE
       ELSE IF rec.sid # NoKey THEN TRUE
       ELSE rec.app

\* The filter that builds eventsToDelete.
ShouldDelete(rec, ue, selected) ==
    LET newIds == {e.id : e \in SeqRange(ue)}
        newBaseKeys == {EventBaseKey(e) : e \in SeqRange(ue)}
    IN IF rec.sid # NoKey /\ rec.sid \in newIds THEN FALSE
       ELSE IF rec.cc # NoKey /\ rec.start.timed /\ RemoteBaseKey(rec) \in newBaseKeys THEN FALSE
       ELSE IF rec.cc # NoKey /\ rec.cc \notin selected THEN TRUE
       ELSE IF rec.sid # NoKey THEN TRUE
       ELSE TRUE

EventsToDelete(ex, ue, selected) ==
    LET del == SelectSeq(ex, LAMBDA x : ShouldDelete(x.rec, ue, selected))
    IN [k \in 1..Len(del) |-> del[k].id]

\* ------------------------------------------------------------ batch executor
Busy(s) == \E k \in 1..Len(s) : s[k] = "inflight"
Waiting(s) == \E k \in 1..Len(s) : s[k] = "new"
Failed(s) == \E k \in 1..Len(s) : s[k] = "fail"

\* Mutant: every remaining call is started at once.
Launch_All(s) == [k \in 1..Len(s) |-> IF s[k] = "new" THEN "inflight" ELSE s[k]]

\* batch.map(...) of the next slice(i, i + BATCH_SIZE): its calls all start.
Launch(s) ==
    LET f == Min({k \in 1..Len(s) : s[k] = "new"})
    IN [k \in 1..Len(s) |-> IF k >= f /\ k < f + BATCH_SIZE THEN "inflight" ELSE s[k]]

\* Mutant: a failed call rejects Promise.all and the remaining work is skipped.
Settle_FailFast(c, u, d) ==
    IF Failed(c) \/ Failed(u) \/ Failed(d) THEN [pc |-> "done", sC |-> c, sU |-> u, sD |-> d]
    ELSE IF Busy(c) THEN [pc |-> "create", sC |-> c, sU |-> u, sD |-> d]
    ELSE IF Waiting(c) THEN [pc |-> "create", sC |-> Launch(c), sU |-> u, sD |-> d]
    ELSE IF Busy(u) THEN [pc |-> "update", sC |-> c, sU |-> u, sD |-> d]
    ELSE IF Waiting(u) THEN [pc |-> "update", sC |-> c, sU |-> Launch(u), sD |-> d]
    ELSE IF Busy(d) THEN [pc |-> "delete", sC |-> c, sU |-> u, sD |-> d]
    ELSE IF Waiting(d) THEN [pc |-> "delete", sC |-> c, sU |-> u, sD |-> Launch(d)]
    ELSE [pc |-> "done", sC |-> c, sU |-> u, sD |-> d]

\* Where the run stands once the pending awaits are counted: the three for
\* loops in order, each chunk awaited by Promise.all before the next starts.
Settle(c, u, d) ==
    IF Busy(c) THEN [pc |-> "create", sC |-> c, sU |-> u, sD |-> d]
    ELSE IF Waiting(c) THEN [pc |-> "create", sC |-> Launch(c), sU |-> u, sD |-> d]
    ELSE IF Busy(u) THEN [pc |-> "update", sC |-> c, sU |-> u, sD |-> d]
    ELSE IF Waiting(u) THEN [pc |-> "update", sC |-> c, sU |-> Launch(u), sD |-> d]
    ELSE IF Busy(d) THEN [pc |-> "delete", sC |-> c, sU |-> u, sD |-> d]
    ELSE IF Waiting(d) THEN [pc |-> "delete", sC |-> c, sU |-> u, sD |-> Launch(d)]
    ELSE [pc |-> "done", sC |-> c, sU |-> u, sD |-> d]

News(n) == [k \in 1..n |-> "new"]

FreshId(rem) == Min(RecordIds \ DOMAIN rem)

\* calendar.events.insert
Insert(rem, e) == [id \in DOMAIN rem \cup {FreshId(rem)} |->
                      IF id \in DOMAIN rem THEN rem[id] ELSE Resource(e)]

\* calendar.events.update: the whole resource is replaced
Update(rem, id, e) == [rem EXCEPT ![id] = Resource(e)]

\* calendar.events.delete
Delete(rem, id) == [x \in DOMAIN rem \ {id} |-> rem[x]]

\* History counter for the claims: consecutive completed runs without a failed call (capped at 2).
CleanAfter(c, u, d) ==
    IF Failed(c) \/ Failed(u) \/ Failed(d) THEN 0
    ELSE IF clean < 2 THEN clean + 1 ELSE 2

\* The run moves on after an await: to the next chunk, the next loop or the return.
Proceed(c, u, d) ==
    LET st == Settle(c, u, d)
    IN /\ pc' = st.pc
       /\ sC' = st.sC
       /\ sU' = st.sU
       /\ sD' = st.sD
       /\ outcome' = IF st.pc = "done" THEN "returned" ELSE "none"
       /\ clean' = IF st.pc = "done" THEN CleanAfter(c, u, d) ELSE clean

\* ------------------------------------------------------------------ actions
\* No sheet has been fetched or parsed.
NoIngestion ==
    /\ fetch = [pc |-> "idle", attempts |-> <<>>, result |-> "none"]
    /\ rawData = [rows |-> <<>>, styles |-> {}]
    /\ now = 0
    /\ parsed = [done |-> FALSE]
    /\ parsedBefore = [done |-> FALSE]
    /\ call = [fn |-> "none"]

\* No manualSync or dailyCalendarSync is running and no call is on record.
NoCaller ==
    /\ userLoop = [stage |-> "idle"]
    /\ limiter = [calls |-> <<>>, inv |-> [s \in 1..MaxInvocations |-> [pc |-> "idle"]],
                  passed |-> <<>>, overlapped |-> FALSE]

InitialRemotes ==
    {<<>>} \cup {[id \in {1} |-> r] : r \in ForeignRecords}

Init ==
    /\ canonical \in CanonicalLists
    /\ selectedCourses \in SUBSET Courses
    /\ remote \in InitialRemotes
    /\ pc = "idle"
    /\ existing = <<>>
    /\ userEvents = <<>>
    /\ eventsToCreate = <<>>
    /\ eventsToUpdate = <<>>
    /\ eventsToDelete = <<>>
    /\ sC = <<>> /\ sU = <<>> /\ sD = <<>>
    /\ created = 0 /\ updated = 0 /\ deleted = 0
    /\ outcome = "none"
    /\ clean = 0
    /\ NoIngestion
    /\ NoCaller

\* syncUserCalendar up to the first create batch: filter, list, build the maps,
\* decide per event, and (the filter being a function of the listing and of
\* userEvents alone) the delete set.
StartRun ==
    /\ UNCHANGED <<ivars, lvars>>
    /\ pc = "idle"
    /\ \E order \in Perms(Listed(remote)) :
         LET ex == [k \in DOMAIN order |-> [id |-> order[k], rec |-> remote[order[k]]]]
             ue == UserEvents(canonical, selectedCourses)
             tc == EventsToCreate(ex, ue)
             tu == EventsToUpdate(ex, ue)
             td == EventsToDelete(ex, ue, selectedCourses)
         IN /\ existing' = ex
            /\ userEvents' = ue
            /\ eventsToCreate' = tc
            /\ eventsToUpdate' = tu
            /\ eventsToDelete' = td
            /\ Proceed(News(Len(tc)), News(Len(tu)), News(Len(td)))
    /\ created' = 0 /\ updated' = 0 /\ deleted' = 0
    /\ UNCHANGED <<canonical, selectedCourses, remote>>

\* calendar resolution or events.list throws: the run ends with no operation.
RunThrows ==
    /\ UNCHANGED <<ivars, lvars>>
    /\ pc = "idle"
    /\ pc' = "done"
    /\ outcome' = "threw"
    /\ clean' = 0
    /\ existing' = <<>> /\ userEvents' = <<>>
    /\ eventsToCreate' = <<>> /\ eventsToUpdate' = <<>> /\ eventsToDelete' = <<>>
    /\ sC' = <<>> /\ sU' = <<>> /\ sD' = <<>>
    /\ created' = 0 /\ updated' = 0 /\ deleted' = 0
    /\ UNCHANGED <<canonical, selectedCourses, remote>>

\* One events.insert of the current create batch completes.
CompleteCreate(k, ok) ==
    /\ UNCHANGED <<ivars, lvars>>
    /\ pc = "create"
    /\ k \in 1..Len(sC) /\ sC[k] = "inflight"
    /\ ok => Cardinality(DOMAIN remote) < MaxRecords
    /\ remote' = IF ok THEN Insert(remote, eventsToCreate[k]) ELSE remote
    /\ created' = IF ok THEN created + 1 ELSE created
    /\ Proceed([sC EXCEPT ![k] = IF ok THEN "ok" ELSE "fail"], sU, sD)
    /\ UNCHANGED <<canonical, selectedCourses, existing, userEvents,
                   eventsToCreate, eventsToUpdate, eventsToDelete, updated, deleted>>

\* One events.update of the current update batch completes.
CompleteUpdate(k, ok) ==
    /\ UNCHANGED <<ivars, lvars>>
    /\ pc = "update"
    /\ k \in 1..Len(sU) /\ sU[k] = "inflight"
    /\ ok => eventsToUpdate[k].existing \in DOMAIN remote
    /\ remote' = IF ok THEN Update(remote, eventsToUpdate[k].existing, eventsToUpdate[k].new)
                 ELSE remote
    /\ updated' = IF ok THEN updated + 1 ELSE updated
    /\ Proceed(sC, [sU EXCEPT ![k] = IF ok THEN "ok" ELSE "fail"], sD)
    /\ UNCHANGED <<canonical, selectedCourses, existing, userEvents,
                   eventsToCreate, eventsToUpdate, eventsToDelete, created, deleted>>

\* One events.delete of the current delete batch completes.
CompleteDelete(k, ok) ==
    /\ UNCHANGED <<ivars, lvars>>
    /\ pc = "delete"
    /\ k \in 1..Len(sD) /\ sD[k] = "inflight"
    /\ ok => eventsToDelete[k] \in DOMAIN remote
    /\ remote' = IF ok THEN Delete(remote, eventsToDelete[k]) ELSE remote
    /\ deleted' = IF ok THEN deleted + 1 ELSE deleted
    /\ Proceed(sC, sU, [sD EXCEPT ![k] = IF ok THEN "ok" ELSE "fail"])
    /\ UNCHANGED <<canonical, selectedCourses, existing, userEvents,
                   eventsToCreate, eventsToUpdate, eventsToDelete, created, updated>>

\* The function's wall-clock timeout (timeoutSeconds) cuts the run off: nothing
\* is returned, the calls in flight are dropped, what was applied stays applied.
Timeout ==
    /\ UNCHANGED <<ivars, lvars>>
    /\ pc \in {"create", "update", "delete"}
    /\ pc' = "idle"
    /\ outcome' = "timeout"
    /\ clean' = 0
    /\ existing' = <<>> /\ userEvents' = <<>>
    /\ eventsToCreate' = <<>> /\ eventsToUpdate' = <<>> /\ eventsToDelete' = <<>>
    /\ sC' = <<>> /\ sU' = <<>> /\ sD' = <<>>
    /\ created' = 0 /\ updated' = 0 /\ deleted' = 0
    /\ UNCHANGED <<canonical, selectedCourses, remote>>

\* The caller is done with the run's result; the run's locals are gone.
Return ==
    /\ UNCHANGED <<ivars, lvars>>
    /\ pc = "done"
    /\ pc' = "idle"
    /\ outcome' = "none"
    /\ existing' = <<>> /\ userEvents' = <<>>
    /\ eventsToCreate' = <<>> /\ eventsToUpdate' = <<>> /\ eventsToDelete' = <<>>
    /\ sC' = <<>> /\ sU' = <<>> /\ sD' = <<>>
    /\ created' = 0 /\ updated' = 0 /\ deleted' = 0
    /\ UNCHANGED <<canonical, selectedCourses, remote, clean>>

\* An ingestion replaces the stored canonical events.
ChangeCanonical ==
    /\ UNCHANGED <<ivars, lvars>>
    /\ pc = "idle"
    /\ \E c \in CanonicalLists \ {canonical} : canonical' = c
    /\ clean' = 0
    /\ UNCHANGED <<selectedCourses, remote, pc, existing, userEvents,
                   eventsToCreate, eventsToUpdate, eventsToDelete, sC, sU, sD,
                   created, updated, deleted, outcome>>

\* The subscriber changes the course selection.
ChangeSelection ==
    /\ UNCHANGED <<ivars, lvars>>
    /\ pc = "idle"
    /\ \E s \in (SUBSET Courses) \ {selectedCourses} : selectedCourses' = s
    /\ clean' = 0
    /\ UNCHANGED <<canonical, remote, pc, existing, userEvents,
                   eventsToCreate, eventsToUpdate, eventsToDelete, sC, sU, sD,
                   created, updated, deleted, outcome>>

Next ==
    \/ StartRun
    \/ RunThrows
    \/ \E k \in DOMAIN sC, ok \in BOOLEAN : CompleteCreate(k, ok)
    \/ \E k \in DOMAIN sU, ok \in BOOLEAN : CompleteUpdate(k, ok)
    \/ \E k \in DOMAIN sD, ok \in BOOLEAN : CompleteDelete(k, ok)
    \/ Timeout
    \/ Return
    \/ ChangeCanonical
    \/ ChangeSelection

Spec == Init /\ [][Next]_vars

\* The canonical events and the selection held fixed: run after run on one
\* calendar.  The scheduler keeps starting runs, every awaited call completes
\* and every run that is not cut off returns.
Completion ==
    \/ \E k \in DOMAIN sC, ok \in BOOLEAN : CompleteCreate(k, ok)
    \/ \E k \in DOMAIN sU, ok \in BOOLEAN : CompleteUpdate(k, ok)
    \/ \E k \in DOMAIN sD, ok \in BOOLEAN : CompleteDelete(k, ok)

NextFixed ==
    \/ StartRun
    \/ RunThrows
    \/ Completion
    \/ Timeout
    \/ Return

SpecFixed ==
    /\ Init
    /\ [][NextFixed]_vars
    /\ WF_vars(StartRun \/ RunThrows)
    /\ WF_vars(Completion)
    /\ WF_vars(Return)

\* Long operation lists: an empty calendar to be filled with a day of MaxOps
\* slots, a calendar holding the first slot in another room, and a calendar
\* holding the whole day after the course was deselected.  The stored events
\* and the selection stay as they are.
InitLong ==
    /\ \/ /\ canonical = LongList("PT1")
          /\ selectedCourses = {CourseCode("SA", "A")}
          /\ remote = <<>>
       \/ /\ canonical = SubSeq(LongList("PT2"), 1, 1)
          /\ selectedCourses = {CourseCode("SA", "A")}
          /\ remote = [k \in {1} |-> Resource(LongList("PT1")[1])]
       \/ /\ canonical = LongList("PT1")
          /\ selectedCourses = {}
          /\ remote = [k \in 1..MaxOps |-> Resource(LongList("PT1")[k])]
    /\ pc = "idle"
    /\ existing = <<>>
    /\ userEvents = <<>>
    /\ eventsToCreate = <<>>
    /\ eventsToUpdate = <<>>
    /\ eventsToDelete = <<>>
    /\ sC = <<>> /\ sU = <<>> /\ sD = <<>>
    /\ created = 0 /\ updated = 0 /\ deleted = 0
    /\ outcome = "none"
    /\ clean = 0
    /\ NoIngestion
    /\ NoCaller

SpecLong == InitLong /\ [][NextFixed]_vars

\* A synced slot whose professor cell was rewritten since (another name, or
\* emptied), and the record of it that the subscriber moved to another room in
\* the calendar.
Rewritten(professor) ==
    MkEvent("SA", "A", "PT1", professor, TermStart, [h |-> 9, m |-> 0, p |-> "AM"], FALSE)

SyncedRecords ==
    {Resource(Rewritten(p)) : p \in {"Prof X", "Prof Y"}}
        \cup {[Resource(Rewritten("Prof X")) EXCEPT !.location = "PT2"]}

\* The slot is stored with one of three professor cells; the calendar holds
\* up to two records of it, as earlier runs or the subscriber left them.
InitEdit ==
    /\ canonical \in {<<Rewritten(p)>> : p \in {"Prof X", "Prof Y", ""}}
    /\ selectedCourses \in {{CourseCode("SA", "A")}, {}}
    /\ remote \in {<<>>} \cup [{1} -> SyncedRecords] \cup [{1, 2} -> SyncedRecords]
    /\ pc = "idle"
    /\ existing = <<>>
    /\ userEvents = <<>>
    /\ eventsToCreate = <<>>
    /\ eventsToUpdate = <<>>
    /\ eventsToDelete = <<>>
    /\ sC = <<>> /\ sU = <<>> /\ sD = <<>>
    /\ created = 0 /\ updated = 0 /\ deleted = 0
    /\ outcome = "none"
    /\ clean = 0
    /\ NoIngestion
    /\ NoCaller

SpecEdit == InitEdit /\ [][NextFixed]_vars

\* ---------------------------------------------------------------- grid parser
\* The reconciliation engine at rest, with nothing stored.
NoSync ==
    /\ canonical = <<>>
    /\ selectedCourses = {}
    /\ remote = <<>>
    /\ pc = "idle"
    /\ existing = <<>>
    /\ userEvents = <<>>
    /\ eventsToCreate = <<>>
    /\ eventsToUpdate = <<>>
    /\ eventsToDelete = <<>>
    /\ sC = <<>> /\ sU = <<>> /\ sD = <<>>
    /\ created = 0 /\ updated = 0 /\ deleted = 0
    /\ outcome = "none"
    /\ clean = 0

\* One application of a parser function: the arguments and the value returned.
Applied(fn, args, result) == [fn |-> fn, args |-> args, result |-> result]

\* What an application of a parser function leaves alone.
rest == <<svars, lvars, fetch, rawData, now, parsed, parsedBefore>>

\* A date string "a/b/c" is the tuple of its three numbers, in text order.
DateStrings == {<<a, b, c>> : a \in {1, 2, 14, 31}, b \in {1, 2, 12, 14}, c \in {2026, 2028}}

IsLeap(y) == (y % 4 = 0 /\ y % 100 # 0) \/ y % 400 = 0

\* Days of the month with 0-based index m0.
DaysIn(y, m0) ==
    IF m0 = 1 THEN (IF IsLeap(y) THEN 29 ELSE 28)
    ELSE IF m0 \in {3, 5, 8, 10} THEN 30
    ELSE 31

\* new Date(year, monthIndex, day) in local time: a month index past 11 and a
\* day past the end of the month roll over.  The month of the result is 1-based.
RECURSIVE JsDate(_, _, _)
JsDate(y, m0, d) ==
    IF m0 > 11 THEN JsDate(y + 1, m0 - 12, d)
    ELSE IF d > DaysIn(y, m0) THEN JsDate(y, m0 + 1, d - DaysIn(y, m0))
    ELSE [year |-> y, month |-> m0 + 1, day |-> d]

\* parseDate of functions/index.js: day = match[1], month = match[2] - 1.
ParseDate(str) == JsDate(str[3], str[2] - 1, str[1])

\* parseDate of the second definition in functions/index.js:
\* month = match[1] - 1, day = match[2].
ParseDateSecond(str) == JsDate(str[3], str[1] - 1, str[2])

\* SheetScraperService.parseDate: [day, month, year] = split('/').map(Number).
ScraperParseDate(str) == JsDate(str[3], str[2] - 1, str[1])

\* Cells.  A cell is a record with a field k: "empty", "text" (nothing a
\* pattern matches), "ranges" (a header text; ranges lists its substrings of
\* the shape `time - time`, in text order), "week", "date", "day" and "lines"
\* (a course or professor cell, one record per non-blank line).  Row and column
\* indices of the source count from 0, sequences from 1.
Empty == [k |-> "empty"]
Text == [k |-> "text"]

\* A time as written in a header: "9:00AM", "9.00AM", "9:00am".
Time(h, p, sep) == [h |-> h, m |-> 0, p |-> p, sep |-> sep]

\* /(\d+[:.]\d+[AP]M)\s*-\s*(\d+[:.]\d+[AP]M)/ matches the substring: the
\* pattern has no i flag, "am" and "pm" do not match.
TimePatternMatches(r) == r.start.p \in {"AM", "PM"} /\ r.end.p \in {"AM", "PM"}

\* match[n].replace(".", ":")
ReplaceDot(t) == [h |-> t.h, m |-> t.m, p |-> t.p]

\* The slot a header cell yields: its last match.
LastSlot(cell) ==
    LET ms == SelectSeq(cell.ranges, TimePatternMatches)
    IN [start |-> ReplaceDot(ms[Len(ms)].start), end |-> ReplaceDot(ms[Len(ms)].end)]

HasMatch(cell) == cell.k = "ranges" /\ \E i \in 1..Len(cell.ranges) : TimePatternMatches(cell.ranges[i])

\* tempSlots of one row: the cells from column index from on that match.
RowSlots(row, from) ==
    LET cells == SelectSeq(SubSeq(row, from + 1, Len(row)), HasMatch)
    IN [i \in 1..Len(cells) |-> LastSlot(cells[i])]

\* Mutant: every row is searched.
ParseTimeSlots_AllRows(rows) ==
    LET q == {r \in 1..Len(rows) : Len(RowSlots(rows[r], 2)) >= 5}
    IN IF q = {} THEN <<>> ELSE RowSlots(rows[Min(q)], 2)

\* parseTimeSlots: the slots of the first of the first 40 rows that yields 5.
ParseTimeSlots(rows) ==
    LET q == {r \in 1..Min({Len(rows), 40}) : Len(RowSlots(rows[r], 2)) >= 5}
    IN IF q = {} THEN <<>> ELSE RowSlots(rows[Min(q)], 2)

\* Header rows: columns 2..7 hold "h:00 - h+1:00" texts, the first n of them
\* in capitals; the first may carry a term label with a time range of its
\* own before it, and column 0 may hold a time range too.
HeaderCell(h, p, sep, label) ==
    [k |-> "ranges",
     ranges |-> (IF label THEN <<[start |-> Time(1, "PM", ":"), end |-> Time(2, "PM", ":")]>> ELSE <<>>)
                \o <<[start |-> Time(h, p, sep), end |-> Time(h + 1, p, sep)]>>]

HeaderRow(n, first, sep, label, lead) ==
    <<IF lead THEN HeaderCell(7, "AM", ":", FALSE) ELSE Text, Text>>
    \o [i \in 1..6 |-> HeaderCell(first + i - 1, IF i <= n THEN "AM" ELSE "am", sep, label /\ i = 1)]

HeaderRows ==
    {HeaderRow(n, 8, sep, label, lead) :
        n \in {4, 5, 6}, sep \in {":", "."}, label \in BOOLEAN, lead \in BOOLEAN}

Blank(n) == [i \in 1..n |-> <<>>]

\* Grids for the header search: blank rows, a header row, a second header row.
HeaderGrids ==
    {Blank(pre) \o <<h>> \o <<HeaderRow(n, 2, ":", FALSE, FALSE)>> :
        pre \in {0, 1, 39, 40}, h \in HeaderRows, n \in {4, 5}}

CallParseTimeSlots ==
    /\ \E rows \in HeaderGrids : call' = Applied("parseTimeSlots", rows, ParseTimeSlots(rows))
    /\ UNCHANGED rest

CallParseDate ==
    /\ \E str \in DateStrings : call' = Applied("parseDate", str, ParseDate(str))
    /\ UNCHANGED rest

CallParseDateSecond ==
    /\ \E str \in DateStrings : call' = Applied("parseDateSecond", str, ParseDateSecond(str))
    /\ UNCHANGED rest

CallScraperParseDate ==
    /\ \E str \in DateStrings : call' = Applied("scraperParseDate", str, ScraperParseDate(str))
    /\ UNCHANGED rest

\* Lines of a course cell, by the shape of their text:
\*   "multi"     Name-X (Location)
\*   "single"    Name (Location)
\*   "combined"  Name-X and Y (Location)
\*   "text"      anything else, "blank" a line of white space.
Multi(name, section, location) ==
    [k |-> "multi", name |-> name, section |-> section, location |-> location]
Single(name, location) == [k |-> "single", name |-> name, location |-> location]
Combined(name, first, second, location) ==
    [k |-> "combined", name |-> name, first |-> first, second |-> second, location |-> location]
TextLine(text) == [k |-> "text", text |-> text]
BlankLine == [k |-> "blank"]

LinesCell(lines) == [k |-> "lines", lines |-> lines]

\* asString(cell).split("\n").filter((line) => line.trim())
CellLines(cell) ==
    IF cell.k = "lines" THEN SelectSeq(cell.lines, LAMBDA l : l.k # "blank")
    ELSE IF cell.k = "empty" THEN <<>>
    ELSE <<TextLine("")>>

\* /([A-Z][A-Za-z0-9&-]+)-([A-Z])\s*\(([^)]+)\)/ : the section letter stands
\* right before the parenthesis, so "Name-X and Y (Location)" has no match.
MultiSectionMatch(line) == line.k = "multi"

\* /([A-Z][A-Za-z0-9&]+)\s*\(([^)]+)\)/ : a name of two characters or more
\* right before the parenthesis; the lone "Y" of a combined line is too short.
SingleSectionMatch(line) == line.k = "single"

\* /([A-Z][A-Za-z0-9\&-]+)-([A-Z])\s+and\s+([A-Z])\s*\(([^)]+)\)/i
CombinedSectionMatch(line) == line.k = "combined"

\* professorLines[lineIndex] || professorLines[0] || ""
ProfessorOf(professorLines, lineIndex) ==
    IF lineIndex <= Len(professorLines) THEN professorLines[lineIndex].text
    ELSE IF Len(professorLines) >= 1 THEN professorLines[1].text
    ELSE ""

\* The event object of parseCellEvents.
CellEvent(courseCode, courseName, section, location, professor, date, timeSlot, isCancelled) ==
    [id |-> EventId(courseCode, location, date, timeSlot.start),
     courseCode |-> courseCode,
     courseName |-> courseName,
     section |-> section,
     location |-> location,
     professor |-> professor,
     date |-> date,
     start |-> timeSlot.start,
     status |-> IF isCancelled THEN "cancelled" ELSE "active",
     isCancelled |-> isCancelled]

\* courseCode of a line in parseCellEvents of functions/index.js: the
\* multi-section pattern, else the single-section pattern, else undefined.
LineCourseCode(line) ==
    IF MultiSectionMatch(line) THEN CourseCode(line.name, line.section)
    ELSE IF SingleSectionMatch(line) THEN <<line.name>>
    ELSE NoKey

\* parseCellEvents of functions/index.js.
ParseCellEvents(cellValue, date, timeSlot, selected, professorCell, isCancelled) ==
    LET lines == CellLines(cellValue)
        ks == SelectSeq([k \in 1..Len(lines) |-> k],
                        LAMBDA k : LineCourseCode(lines[k]) # NoKey /\ LineCourseCode(lines[k]) \in selected)
    IN [i \in 1..Len(ks) |->
          CellEvent(LineCourseCode(lines[ks[i]]), lines[ks[i]].name,
                    IF MultiSectionMatch(lines[ks[i]]) THEN lines[ks[i]].section ELSE "1",
                    lines[ks[i]].location, ProfessorOf(CellLines(professorCell), ks[i]),
                    date, timeSlot, isCancelled)]

\* Section of a line in SheetScraperService.parseCellEvents: of a combined
\* line the first listed section if its code is selected, else the second if
\* that is selected; else as the multi- and single-section patterns give it.
ScraperLineSection(line, selected) ==
    IF CombinedSectionMatch(line) /\ CourseCode(line.name, line.first) \in selected THEN line.first
    ELSE IF CombinedSectionMatch(line) /\ CourseCode(line.name, line.second) \in selected THEN line.second
    ELSE IF MultiSectionMatch(line) THEN line.section
    ELSE "1"

ScraperLineCourseCode(line, selected) ==
    IF CombinedSectionMatch(line)
    THEN (IF CourseCode(line.name, line.first) \in selected \/ CourseCode(line.name, line.second) \in selected
          THEN CourseCode(line.name, ScraperLineSection(line, selected))
          ELSE NoKey)
    ELSE LineCourseCode(line)

\* SheetScraperService.parseCellEvents: isRed and hasStrikethrough are false.
ScraperParseCellEvents(cellValue, date, timeSlot, selected, professorCell) ==
    LET lines == CellLines(cellValue)
        ks == SelectSeq([k \in 1..Len(lines) |-> k],
                        LAMBDA k : /\ ScraperLineCourseCode(lines[k], selected) # NoKey
                                   /\ ScraperLineCourseCode(lines[k], selected) \in selected)
    IN [i \in 1..Len(ks) |->
          CellEvent(ScraperLineCourseCode(lines[ks[i]], selected), lines[ks[i]].name,
                    ScraperLineSection(lines[ks[i]], selected),
                    lines[ks[i]].location, ProfessorOf(CellLines(professorCell), ks[i]),
                    date, timeSlot, FALSE)]

\* Inputs of parseCellEvents.
CourseLines ==
    {Multi("SA", "A", "PT1"), Multi("SA", "B", "PT2"), Combined("SA", "A", "B", "PT-2-4"),
     Single("CSM", "PT3"), TextLine("Lunch")}

CourseCells ==
    {LinesCell(<<a>>) : a \in CourseLines}
    \cup {LinesCell(<<a, b>>) : a \in CourseLines, b \in CourseLines}
    \cup {LinesCell(<<Multi("SA", "A", "PT1"), BlankLine, Multi("SA", "B", "PT2")>>)}

ProfessorCells ==
    {Empty, LinesCell(<<TextLine("Prof X")>>), LinesCell(<<TextLine("Prof X"), TextLine("Prof Y")>>)}

Selections == SUBSET {CourseCode("SA", "A"), CourseCode("SA", "B"), <<"CSM">>}

SlotNine == [start |-> [h |-> 9, m |-> 0, p |-> "AM"], end |-> [h |-> 10, m |-> 0, p |-> "AM"]]

SomeDate == [year |-> 2026, month |-> 2, day |-> 14]

CellArgs(cellValue, selected, professorCell, isCancelled) ==
    [cellValue |-> cellValue, date |-> SomeDate, timeSlot |-> SlotNine,
     selectedCourses |-> selected, professorCell |-> professorCell, isCancelled |-> isCancelled]

CallParseCellEvents ==
    /\ \E c \in CourseCells, sel \in Selections, p \in ProfessorCells, x \in BOOLEAN :
         call' = Applied("parseCellEvents", CellArgs(c, sel, p, x),
                         ParseCellEvents(c, SomeDate, SlotNine, sel, p, x))
    /\ UNCHANGED rest

CallScraperParseCellEvents ==
    /\ \E c \in CourseCells, sel \in Selections, p \in ProfessorCells :
         call' = Applied("scraperParseCellEvents", CellArgs(c, sel, p, FALSE),
                         ScraperParseCellEvents(c, SomeDate, SlotNine, sel, p))
    /\ UNCHANGED rest

\* ------------------------------------------------------------- whole grids
\* rawData[i] and row[j] with the source's indices; beyond the end: [] and "".
RowAt(rows, i) == IF i < Len(rows) THEN rows[i + 1] ELSE <<>>
CellAt(row, j) == IF j < Len(row) THEN row[j + 1] ELSE Empty

RECURSIVE Flatten(_)
Flatten(seqs) == IF seqs = <<>> THEN <<>> ELSE Head(seqs) \o Flatten(Tail(seqs))

\* All course codes of the model, in the order of localeCompare.
CodesInOrder == <<<<"CSM">>, CourseCode("SA", "A"), CourseCode("SA", "B")>>

\* The codes extractCourses finds in one cell: those of its multi-section and
\* of its single-section matches.
CellCodes(cell) ==
    LET lines == CellLines(cell)
    IN {LineCourseCode(lines[k]) : k \in {n \in 1..Len(lines) : LineCourseCode(lines[n]) # NoKey}}

\* extractCourses: the codes of the cells of rows 2.. and columns 2.., each
\* once, sorted by code.
ExtractCourses(rows) ==
    LET found == UNION {CellCodes(CellAt(RowAt(rows, i), j)) :
                           i \in 2..(Len(rows) - 1), j \in 2..7}
    IN SelectSeq(CodesInOrder, LAMBDA c : c \in found)

\* One (course row, professor row) pair of a day block: the cells of columns
\* 2..min(row.length, timeSlots.length + 2) - 1, each with the time slot of
\* its column and the cancellation mark of (styleRow, column).
PairEvents(raw, timeSlots, selected, courseRow, profRow, styleRow, date) ==
    LET last == Min({Len(courseRow), Len(timeSlots) + 2}) - 1
    IN Flatten([n \in 1..(last - 1) |->
          IF CellAt(courseRow, n + 1).k = "empty" THEN <<>>
          ELSE ParseCellEvents(CellAt(courseRow, n + 1), date, timeSlots[n], selected,
                               CellAt(profRow, n + 1), <<styleRow, n + 1>> \in raw.styles)])

\* Mutant: the second pair of a day block reads the mark of the first pair's row.
SecondPairStyleRow_First(i) == i

\* isCellCancelled(i + 2, j) for the second pair.
SecondPairStyleRow(i) == i + 2

\* The loop of parseScheduleEvents from row i on, currentDate being date.
RECURSIVE ParseRows(_, _, _, _, _)
ParseRows(raw, timeSlots, selected, i, date) ==
    IF i >= Len(raw.rows) THEN <<>>
    ELSE LET row == RowAt(raw.rows, i)
             cell0 == CellAt(row, 0)
             currentDate == IF cell0.k = "date" THEN ParseDate(cell0.str) ELSE date
             block ==
                 IF CellAt(row, 1).k = "day"
                 THEN PairEvents(raw, timeSlots, selected, row, RowAt(raw.rows, i + 1), i, currentDate)
                      \o PairEvents(raw, timeSlots, selected, RowAt(raw.rows, i + 2),
                                    RowAt(raw.rows, i + 3), SecondPairStyleRow(i), currentDate)
                 ELSE <<>>
         IN block \o ParseRows(raw, timeSlots, selected, i + 1, currentDate)

\* parseScheduleEvents, called at time t: currentDate starts as new Date().
ParseScheduleEvents(raw, selected, t) ==
    LET timeSlots == ParseTimeSlots(raw.rows)
    IN IF timeSlots = <<>> THEN <<>>
       ELSE ParseRows(raw, timeSlots, selected, 0, [now |-> t])

\* Grids of one day block.  Row 0 is the header of 5 slots; after off blank
\* rows the day row holds the date (or nothing) in column 0, the day in column
\* 1 and course cells in columns 2 and 3; the second course row holds c2 in
\* column 2.  Each course cell has a room of its own.
DayGrid(dated, off, c1, c2) ==
    <<HeaderRow(5, 8, ":", FALSE, FALSE)>> \o Blank(off)
    \o << <<IF dated THEN [k |-> "date", str |-> <<14, 2, 2026>>] ELSE Empty,
             [k |-> "day", name |-> "Mon"], c1, LinesCell(<<Multi("SA", "B", "PT3")>>)>>,
           <<Empty, Empty, LinesCell(<<TextLine("Prof X")>>), LinesCell(<<TextLine("Prof Y")>>)>>,
           <<Empty, Empty, c2>>,
           <<Empty, Empty, LinesCell(<<TextLine("Prof Z")>>)>> >>

DayGrids ==
    {DayGrid(dated, off, c1, c2) :
        dated \in BOOLEAN, off \in {1, 2},
        c1 \in {LinesCell(<<Multi("SA", "A", "PT1")>>), LinesCell(<<Single("CSM", "PT1")>>),
                 LinesCell(<<Multi("SA", "A", "PT1"), Multi("SA", "B", "PT1")>>)},
        c2 \in {Empty, LinesCell(<<Multi("SA", "B", "PT2")>>)}}

\* Cancellation maps of a downloaded file: marks on cells of the day block.
StyleMaps(rows) == SUBSET {<<Len(rows) - 4, 2>>, <<Len(rows) - 4, 3>>, <<Len(rows) - 2, 2>>}

\* The same grids with a second day name in column 1 two rows below the
\* first: a timetable whose days take one (course, professor) pair each.
TwoDayGrids ==
    {[g EXCEPT ![Len(g) - 1][2] = [k |-> "day", name |-> "Tue"]] :
        g \in {d \in DayGrids : d[Len(d) - 1][3] # Empty}}

\* The same grids under a header of 5 slots in columns 3..7, column 2 of the
\* header holding a text that is no time range.
GapGrids ==
    {[g EXCEPT ![1] = [HeaderRow(6, 8, ":", FALSE, FALSE) EXCEPT ![3] = Text]] : g \in DayGrids}

\* The grids a fetch can return.
SheetGrids == DayGrids \cup TwoDayGrids \cup GapGrids

\* ------------------------------------------------------------ fetchSheetData
\* Mutant: a failed tab-qualified query goes straight to the download.
AfterFailure_SkipDefault(strategy, answer) ==
    IF strategy = "tab" THEN "download" ELSE "throw"

\* What follows a failed strategy: the default query after the tab-qualified
\* one; the download after the default query, if its message says the
\* document is not supported (an .xlsx file); else the error is thrown.
AfterFailure(strategy, answer) ==
    IF strategy = "tab" THEN "default"
    ELSE IF strategy = "default" /\ answer = "unsupported" THEN "download"
    ELSE "throw"

\* One strategy has answered: the data is returned, the next strategy is
\* started, or the error is thrown.
Answered(strategy, answer, data) ==
    LET tried == Append(fetch.attempts, [strategy |-> strategy, outcome |-> answer])
    IN IF answer = "ok"
       THEN /\ fetch' = [pc |-> "done", attempts |-> tried, result |-> "data"]
            /\ rawData' = data
       ELSE /\ fetch' = [pc |-> AfterFailure(strategy, answer), attempts |-> tried,
                         result |-> IF AfterFailure(strategy, answer) = "throw" THEN "error" ELSE "none"]
            /\ UNCHANGED rawData

\* fetchSheetData is called: the tab-qualified query is sent.
FetchSheetData ==
    /\ fetch.pc \in {"idle", "done", "throw"}
    /\ fetch' = [pc |-> "tab", attempts |-> <<>>, result |-> "none"]
    /\ rawData' = [rows |-> <<>>, styles |-> {}]
    /\ parsed' = [done |-> FALSE]
    /\ parsedBefore' = [done |-> FALSE]
    /\ UNCHANGED <<svars, lvars, now, call>>

\* sheets.spreadsheets.values.get with range `${sheetTabName}!A1:Z200` answers.
TabQueryAnswers ==
    /\ fetch.pc = "tab"
    /\ \E answer \in {"ok", "unsupported", "other"}, rows \in SheetGrids :
         Answered("tab", answer, [rows |-> rows, styles |-> {}])
    /\ UNCHANGED <<svars, lvars, now, parsed, parsedBefore, call>>

\* sheets.spreadsheets.values.get with range `A1:Z200` answers.
DefaultQueryAnswers ==
    /\ fetch.pc = "default"
    /\ \E answer \in {"ok", "unsupported", "other"}, rows \in SheetGrids :
         Answered("default", answer, [rows |-> rows, styles |-> {}])
    /\ UNCHANGED <<svars, lvars, now, parsed, parsedBefore, call>>

\* drive.files.get, the style extraction and XLSX.read succeed or one throws.
DownloadAnswers ==
    /\ fetch.pc = "download"
    /\ \E answer \in {"ok", "other"}, rows \in SheetGrids :
         \E styles \in StyleMaps(rows) :
            Answered("download", answer, [rows |-> rows, styles |-> styles])
    /\ UNCHANGED <<svars, lvars, now, parsed, parsedBefore, call>>

\* manualSync, step 4: extractCourses and parseScheduleEvents of the fetched grid.
ParseSheet ==
    /\ fetch.result = "data"
    /\ parsedBefore' = parsed
    /\ parsed' = [done |-> TRUE,
                  courses |-> ExtractCourses(rawData.rows),
                  events |-> ParseScheduleEvents(rawData, SeqRange(ExtractCourses(rawData.rows)), now)]
    /\ UNCHANGED <<svars, lvars, fetch, rawData, now, call>>

\* Time passes.
Tick ==
    /\ now < MaxNow
    /\ now' = now + 1
    /\ UNCHANGED <<svars, lvars, fetch, rawData, parsed, parsedBefore, call>>

InitIngest == NoSync /\ NoIngestion /\ NoCaller

NextIngest ==
    \/ FetchSheetData
    \/ TabQueryAnswers
    \/ DefaultQueryAnswers
    \/ DownloadAnswers
    \/ ParseSheet
    \/ Tick

SpecIngest == InitIngest /\ [][NextIngest]_vars

\* ------------------------------------------------------------ style extractor
\* A font of styles.xml: whether it holds a <strike> element, and the bytes of
\* its color's rgb attribute: <<a, r, g, b>> for ARGB, <<r, g, b>> for RGB, <<>>
\* when the font has no rgb color.
Font(strike, color) == [strike |-> strike, color |-> color]

\* rgb = fullColor.length === 8 ? fullColor.slice(2) : fullColor, then
\* r > 200 && g < 50 && b < 50 when rgb has 6 digits.
IsRed(color) ==
    LET rgb == IF Len(color) = 4 THEN SubSeq(color, 2, 4) ELSE color
    IN Len(rgb) = 3 /\ rgb[1] > 200 /\ rgb[2] < 50 /\ rgb[3] < 50

\* Mutant: one of the two marks is enough.
IsCancelledFont_Either(font) == font.strike \/ IsRed(font.color)

\* isStrike && isRed
IsCancelledFont(font) == font.strike /\ IsRed(font.color)

\* XLSX.utils.decode_cell: "H9", here <<8, 9>> (column H, row 9), is r = 8, c = 7.
DecodeCell(ref) == [r |-> ref[2] - 1, c |-> ref[1] - 1]

\* The cancelled cells map of fetchSheetData.  fonts: the <font> elements;
\* cellXfs: the fontId of each <xf> (-1 without one); cells: the <c> elements
\* of the sheet, [ref, s] (s = -1 without a style attribute).
CancelledCells(fonts, cellXfs, cells) ==
    LET cancelledFontIds == {i \in 0..(Len(fonts) - 1) : IsCancelledFont(fonts[i + 1])}
        cancelledStyleIds == {x \in 0..(Len(cellXfs) - 1) : cellXfs[x + 1] \in cancelledFontIds}
    IN {<<DecodeCell(cells[n].ref).r, DecodeCell(cells[n].ref).c>> :
            n \in {m \in 1..Len(cells) : cells[m].s \in cancelledStyleIds}}

\* Inputs of the extractor.
Colors ==
    {<<>>, <<255, 0, 0>>, <<0, 255, 0>>}
    \cup {<<255, r, g, b>> : r \in {200, 201}, g \in {49, 50}, b \in {0, 50}}
    \cup {<<0, 255, 0, 0>>, <<255, 0, 0, 255>>}

Fonts == {Font(st, c) : st \in BOOLEAN, c \in Colors}

StyleSheets == {<<f, g>> : f \in Fonts, g \in Fonts}

\* Formats 0 and 1 use fonts 0 and 1, format 2 names no font, format 3 names
\* a font that does not exist.
SomeCellXfs == <<0, 1, -1, 7>>

\* H8 and I8 in formats 0 and 1, H9 in format 2, H10 without a format, I10 in
\* format 3, H11 in a format that does not exist.
SomeCells ==
    <<[ref |-> <<8, 8>>, s |-> 0], [ref |-> <<9, 8>>, s |-> 1], [ref |-> <<8, 9>>, s |-> 2],
      [ref |-> <<8, 10>>, s |-> -1], [ref |-> <<9, 10>>, s |-> 3], [ref |-> <<8, 11>>, s |-> 9]>>

CallCancelledCells ==
    /\ \E fonts \in StyleSheets :
         call' = Applied("cancelledCells",
                         [fonts |-> fonts, cellXfs |-> SomeCellXfs, cells |-> SomeCells],
                         CancelledCells(fonts, SomeCellXfs, SomeCells))
    /\ UNCHANGED rest

\* The parser functions applied, one after another, to inputs of the bounded
\* families above.
InitParser == NoSync /\ NoIngestion /\ NoCaller

NextParser ==
    \/ CallParseDate
    \/ CallParseDateSecond
    \/ CallScraperParseDate
    \/ CallParseTimeSlots
    \/ CallParseCellEvents
    \/ CallScraperParseCellEvents
    \/ CallCancelledCells

SpecParser == InitParser /\ [][NextParser]_vars

\* ------------------------------------------------------------ per-user loop
\* A subscriber document of the run: whether oauthTokens holds a refresh
\* token, and whether it holds an access token that has not expired.
Subscribers == [refreshToken : BOOLEAN, accessToken : BOOLEAN]

UserLists == UNION {[1..n -> Subscribers] : n \in 0..MaxUsers}

\* The loop moves to the next userDoc, or ends after the last one.
NextUser(l) ==
    [l EXCEPT !.i = l.i + 1,
              !.stage = IF l.i + 1 > Len(l.users) THEN "finished" ELSE "token"]

\* Mutant: an error of one subscriber ends the loop.
Caught_Abort(l, why) ==
    [l EXCEPT !.errorCount = l.errorCount + 1, !.fatal[l.i] = why, !.stage = "finished"]

\* The error of a subscriber is counted and the loop goes on: the catch block
\* of the loop body, and the counted `continue`s of dailyCalendarSync.
Caught(l, why) ==
    NextUser([l EXCEPT !.errorCount = l.errorCount + 1, !.fatal[l.i] = why])

\* manualSync: `continue` for a subscriber without a refresh token.
Skipped(l, why) == NextUser([l EXCEPT !.fatal[l.i] = why])

\* The users query has answered: the loop starts with both counts at 0.
StartUserLoop ==
    /\ userLoop.stage = "idle"
    /\ \E fn \in {"manualSync", "dailyCalendarSync"}, users \in UserLists :
         userLoop' = [stage |-> IF users = <<>> THEN "finished" ELSE "token",
                      fn |-> fn, users |-> users, i |-> 1,
                      successCount |-> 0, errorCount |-> 0,
                      ops |-> [k \in 1..Len(users) |-> 0],
                      fatal |-> [k \in 1..Len(users) |-> "none"],
                      synced |-> [k \in 1..Len(users) |-> FALSE]]
    /\ UNCHANGED <<svars, ivars, limiter>>

\* The loop body up to its first await: the token checks of the two callers.
CheckToken ==
    /\ userLoop.stage = "token"
    /\ LET u == userLoop.users[userLoop.i]
       IN userLoop' =
            IF userLoop.fn = "manualSync"
            THEN IF ~u.refreshToken THEN Skipped(userLoop, "no refresh token")
                 ELSE IF ~u.accessToken THEN [userLoop EXCEPT !.stage = "refresh"]
                 ELSE [userLoop EXCEPT !.stage = "resolve"]
            ELSE IF ~u.accessToken
                 THEN IF ~u.refreshToken THEN Caught(userLoop, "no refresh token")
                      ELSE [userLoop EXCEPT !.stage = "refresh"]
                 ELSE [userLoop EXCEPT !.stage = "resolve"]
    /\ UNCHANGED <<svars, ivars, limiter>>

\* refreshOAuthToken returns a token or throws.  dailyCalendarSync catches the
\* error itself and marks the user before it counts it.
RefreshAnswers ==
    /\ userLoop.stage = "refresh"
    /\ \E ok \in BOOLEAN :
         userLoop' =
            IF ok THEN [userLoop EXCEPT !.stage = "resolve"]
            ELSE IF userLoop.fn = "dailyCalendarSync" THEN [userLoop EXCEPT !.stage = "mark"]
            ELSE Caught(userLoop, "token refresh failed")
    /\ UNCHANGED <<svars, ivars, limiter>>

\* dailyCalendarSync: the needsReauth update of the user document returns, and
\* the error is counted, or throws into the catch block, which counts it.
MarkAnswers ==
    /\ userLoop.stage = "mark"
    /\ \E ok \in BOOLEAN : userLoop' = Caught(userLoop, "token refresh failed")
    /\ UNCHANGED <<svars, ivars, limiter>>

\* syncUserCalendar, calendar resolution: a calendar is found or the call throws.
ResolveAnswers ==
    /\ userLoop.stage = "resolve"
    /\ \E ok \in BOOLEAN :
         userLoop' = IF ok THEN [userLoop EXCEPT !.stage = "list"]
                     ELSE Caught(userLoop, "no calendar found")
    /\ UNCHANGED <<svars, ivars, limiter>>

\* syncUserCalendar, events.list: the listing arrives or the call throws.
ListAnswers ==
    /\ userLoop.stage = "list"
    /\ \E ok \in BOOLEAN :
         userLoop' = IF ok THEN [userLoop EXCEPT !.stage = "apply"]
                     ELSE Caught(userLoop, "remote list failed")
    /\ UNCHANGED <<svars, ivars, limiter>>

\* syncUserCalendar, the three batch loops: n calls are issued, none of them
\* throws out of its own catch, the stats are returned and the user counted.
ApplyBatches ==
    /\ userLoop.stage = "apply"
    /\ \E n \in 0..2 :
         userLoop' = NextUser([userLoop EXCEPT !.ops[userLoop.i] = n,
                                               !.synced[userLoop.i] = TRUE,
                                               !.successCount = userLoop.successCount + 1])
    /\ UNCHANGED <<svars, ivars, limiter>>

\* The run logs or returns its counts.
ReturnCounts ==
    /\ userLoop.stage = "finished"
    /\ userLoop' = [stage |-> "idle"]
    /\ UNCHANGED <<svars, ivars, limiter>>

InitLoop == NoSync /\ NoIngestion /\ NoCaller

NextLoop ==
    \/ StartUserLoop
    \/ CheckToken
    \/ RefreshAnswers
    \/ MarkAnswers
    \/ ResolveAnswers
    \/ ListAnswers
    \/ ApplyBatches
    \/ ReturnCounts

SpecLoop == InitLoop /\ [][NextLoop]_vars

\* ------------------------------------------------- manualSync rate limiting
\* calls.filter(c => new Date(c) > new Date(t - span))
CallsSince(calls, t, span) == SelectSeq(calls, LAMBDA c : c > t - span)

\* The rate-limit check on the calls read from rateLimits/manualSync.
Limited(calls, t) ==
    \/ Len(CallsSince(calls, t, Hour)) >= HourLimit
    \/ Len(CallsSince(calls, t, Day)) >= DayLimit

\* manualSync is invoked: a caller that is not the admin is turned away, the
\* admin's invocation sends rateLimitRef.get().
Invoke(s) ==
    /\ limiter.inv[s].pc = "idle"
    /\ Len(limiter.passed) < MaxPassed
    /\ \E admin \in BOOLEAN :
         limiter' = [limiter EXCEPT !.inv[s] =
                        [pc |-> IF admin THEN "get" ELSE "thrown", t |-> now,
                         payload |-> <<>>, writes |-> 0]]
    /\ UNCHANGED <<svars, ivars, userLoop>>

\* rateLimitRef.get() answers with the stored calls; the check throws, or the
\* invocation passes and sends rateLimitRef.set() with the calls of the last
\* day it has read and its own time.
GetAnswers(s) ==
    /\ limiter.inv[s].pc = "get"
    /\ limiter' =
         IF Limited(limiter.calls, now)
         THEN [limiter EXCEPT !.inv[s].pc = "thrown", !.inv[s].t = now]
         ELSE [limiter EXCEPT
                 !.inv[s] = [pc |-> "set", t |-> now,
                             payload |-> Append(CallsSince(limiter.calls, now, Day), now),
                             writes |-> 0],
                 !.passed = Append(limiter.passed, now),
                 !.overlapped = limiter.overlapped
                                   \/ \E o \in 1..MaxInvocations : limiter.inv[o].pc = "set"]
    /\ UNCHANGED <<svars, ivars, userLoop>>

\* rateLimitRef.set() is applied: the document is replaced.
SetLands(s) ==
    /\ limiter.inv[s].pc = "set"
    /\ limiter' = [limiter EXCEPT !.calls = limiter.inv[s].payload,
                                  !.inv[s].pc = "work",
                                  !.inv[s].writes = 1]
    /\ UNCHANGED <<svars, ivars, userLoop>>

\* The rest of manualSync: the sheet is fetched, the store written, the
\* calendars synced.
Work(s) ==
    /\ limiter.inv[s].pc = "work"
    /\ limiter' = [limiter EXCEPT !.inv[s].pc = "done", !.inv[s].writes = 2]
    /\ UNCHANGED <<svars, ivars, userLoop>>

\* The invocation has returned or thrown.
Finish(s) ==
    /\ limiter.inv[s].pc \in {"thrown", "done"}
    /\ limiter' = [limiter EXCEPT !.inv[s] = [pc |-> "idle"]]
    /\ UNCHANGED <<svars, ivars, userLoop>>

\* An hour passes.
HourPasses ==
    /\ now < MaxNow
    /\ now' = now + Hour
    /\ UNCHANGED <<svars, lvars, fetch, rawData, parsed, parsedBefore, call>>

InitLimit == NoSync /\ NoIngestion /\ NoCaller

NextLimit ==
    \/ \E s \in 1..MaxInvocations : Invoke(s)
    \/ \E s \in 1..MaxInvocations : GetAnswers(s)
    \/ \E s \in 1..MaxInvocations : SetLands(s)
    \/ \E s \in 1..MaxInvocations : Work(s)
    \/ \E s \in 1..MaxInvocations : Finish(s)
    \/ HourPasses

SpecLimit == InitLimit /\ [][NextLimit]_vars

\* ------------------------------------------------------------------ claims
Planned == pc \in {"create", "update", "delete"} \/ (pc = "done" /\ outcome = "returned")

DeleteSet == SeqRange(eventsToDelete)
CreateSet == SeqRange(eventsToCreate)
UpdatedEvents == {eventsToUpdate[k].new : k \in 1..Len(eventsToUpdate)}
UpdateTargets == {eventsToUpdate[k].existing : k \in 1..Len(eventsToUpdate)}
NewIds == {e.id : e \in SeqRange(userEvents)}
NewBaseKeys == {EventBaseKey(e) : e \in SeqRange(userEvents)}
Count(s, v) == Cardinality({k \in 1..Len(s) : s[k] = v})

\* C1: a run that follows a fully successful run, with no change of the canonical
\* events, the selection or the calendar in between, returns {0, 0, 0}.
C1_Idempotence ==
    (pc = "done" /\ outcome = "returned" /\ clean = 2)
        => (created = 0 /\ updated = 0 /\ deleted = 0)

\* C2: a canonical event with no exact-id match and a listed record of its
\* courseCode and base key but another location: one update of that event, against
\* that record, the event is not created and the record is not deleted.
C2_LocationChange ==
    Planned =>
        \A e \in SeqRange(userEvents) : \A x \in SeqRange(existing) :
            (/\ \A y \in SeqRange(existing) : y.rec.sid # e.id
             /\ x.rec.cc = e.courseCode
             /\ x.rec.start.timed
             /\ RemoteBaseKey(x.rec) = EventBaseKey(e)
             /\ x.rec.location # e.location)
            => /\ Cardinality({k \in 1..Len(eventsToUpdate) : eventsToUpdate[k].new = e})
                    = Count(userEvents, e)
               /\ \A k \in 1..Len(eventsToUpdate) :
                    eventsToUpdate[k].new = e => eventsToUpdate[k].existing = x.id
               /\ e \notin CreateSet
               /\ x.id \notin DeleteSet

\* C3: every ScheduleEvent.id is the scheduleEventId of at most one record.
C3_OneRecordPerId ==
    \A i, j \in DOMAIN remote :
        (remote[i].sid # NoKey /\ remote[i].sid = remote[j].sid) => i = j

\* C4: no canonical event is in both the create set and the update set of a run.
C4_NoOverlap == CreateSet \cap UpdatedEvents = {}

C4_Witness == Planned /\ CreateSet # {} /\ UpdatedEvents # {}

\* C5: a listed record whose scheduleEventId is no canonical event's id and whose
\* courseCode is still selected is in the delete set.
C5_ScenarioD ==
    Planned =>
        \A x \in SeqRange(existing) :
            (x.rec.sid # NoKey /\ x.rec.sid \notin NewIds /\ x.rec.cc \in selectedCourses)
                => x.id \in DeleteSet

\* C5 as amended: ... and whose base key is no canonical event's base key ...
C5_ScenarioDUnlessBaseKey ==
    Planned =>
        \A x \in SeqRange(existing) :
            (/\ x.rec.sid # NoKey /\ x.rec.sid \notin NewIds
             /\ x.rec.cc \in selectedCourses
             /\ RemoteBaseKey(x.rec) \notin NewBaseKeys)
                => x.id \in DeleteSet

C5_Witness ==
    /\ Planned
    /\ \E x \in SeqRange(existing) :
        /\ x.rec.sid # NoKey /\ x.rec.sid \notin NewIds
        /\ x.rec.cc \in selectedCourses
        /\ RemoteBaseKey(x.rec) \notin NewBaseKeys
        /\ x.id \in DeleteSet

\* C6: a listed record whose courseCode is not selected is in the delete set.
C6_UnselectedDeleted ==
    Planned =>
        \A x \in SeqRange(existing) :
            (x.rec.cc # NoKey /\ x.rec.cc \notin selectedCourses) => x.id \in DeleteSet

C6_Witness ==
    /\ Planned
    /\ userEvents # <<>>
    /\ \E x \in SeqRange(existing) :
        x.rec.cc # NoKey /\ x.rec.cc \notin selectedCourses /\ x.id \in DeleteSet

C8_ForeignKept ==
    Planned =>
        \A x \in SeqRange(existing) :
            (x.rec.sid = NoKey /\ x.rec.cc = NoKey /\ ~x.rec.app) => x.id \notin DeleteSet

\* A remote operation failed in the current run, or the last run was cut off or threw.
Faulty == Failed(sC) \/ Failed(sU) \/ Failed(sD) \/ outcome \in {"timeout", "threw"}

Converged ==
    /\ pc = "done" /\ outcome = "returned"
    /\ eventsToCreate = <<>> /\ eventsToUpdate = <<>> /\ eventsToDelete = <<>>

\* C9: with the canonical events and the selection fixed, once operations stop
\* failing and runs stop being cut off, some run computes three empty sets.
C9_Convergence == (<>[]~Faulty) => <>Converged

\* C10: a run returns with every operation of the three sets attempted and
\* completed, and its totals are the numbers of operations that succeeded.
C10_FaultIsolation ==
    (pc = "done" /\ outcome = "returned") =>
        /\ Len(sC) = Len(eventsToCreate)
        /\ Len(sU) = Len(eventsToUpdate)
        /\ Len(sD) = Len(eventsToDelete)
        /\ \A k \in 1..Len(sC) : sC[k] \in {"ok", "fail"}
        /\ \A k \in 1..Len(sU) : sU[k] \in {"ok", "fail"}
        /\ \A k \in 1..Len(sD) : sD[k] \in {"ok", "fail"}
        /\ created = Count(sC, "ok")
        /\ updated = Count(sU, "ok")
        /\ deleted = Count(sD, "ok")

C10_Witness ==
    /\ pc = "done" /\ outcome = "returned"
    /\ Failed(sC) /\ Count(sC, "ok") > 0
    /\ Failed(sD)

\* The number of remote calls started and not yet completed.
InFlight == Count(sC, "inflight") + Count(sU, "inflight") + Count(sD, "inflight")

\* The chunk of the k-th operation of a list: slice(i, i + BATCH_SIZE).
Chunk(k) == (k - 1) \div BATCH_SIZE

\* Every call of an earlier chunk has completed once a call of a later chunk started.
ChunkOrder(s) ==
    \A j, k \in 1..Len(s) :
        (s[k] # "new" /\ Chunk(j) < Chunk(k)) => s[j] \in {"ok", "fail"}

\* C11: at every moment of a run at most BATCH_SIZE create/update/delete calls
\* are in flight, and no call of a chunk has started before every call of the
\* chunk before it has completed, succeeded or failed.
C11_BoundedConcurrency ==
    /\ InFlight <= BATCH_SIZE
    /\ ChunkOrder(sC) /\ ChunkOrder(sU) /\ ChunkOrder(sD)

\* A call of the second create chunk is in flight after a call of the first failed.
C11_Witness ==
    /\ Len(sC) > BATCH_SIZE
    /\ sC[BATCH_SIZE + 1] = "inflight"
    /\ \E j \in 1..BATCH_SIZE : sC[j] = "fail"

\* The same in the delete loop.
C11_WitnessDelete == Len(sD) > BATCH_SIZE /\ sD[BATCH_SIZE + 1] = "inflight"

DayFirstDate(str) == str[2] \in 1..12 /\ str[1] \in 1..DaysIn(str[3], str[2] - 1)

\* C18: parseDate of a string D/M/YYYY is the date with day D, month M and year
\* YYYY, in each of the definitions of parseDate.
C18_DayFirst ==
    (call.fn \in {"parseDate", "parseDateSecond", "scraperParseDate"} /\ DayFirstDate(call.args))
        => call.result = [year |-> call.args[3], month |-> call.args[2], day |-> call.args[1]]

\* The header row of a grid when cells are counted from column index from on:
\* the first of the first 40 rows with at least 5 matching cells, 0 if none.
HeaderRowFrom(rows, from) ==
    LET q == {r \in 1..Len(rows) : r <= 40 /\ Len(RowSlots(rows[r], from)) >= 5}
    IN IF q = {} THEN 0 ELSE Min(q)

\* C15 as stated: the row that counts is the first of the first 40 rows with at
\* least 5 cells matching the time-range pattern; parseTimeSlots returns its
\* slots in column order, and the empty list if there is no such row.
C15_HeaderDetection ==
    call.fn = "parseTimeSlots" =>
        LET r == HeaderRowFrom(call.args, 0)
        IN call.result = IF r = 0 THEN <<>> ELSE RowSlots(call.args[r], 0)

\* C15 as amended: only the cells at column index 2 and later count, towards
\* the 5 cells and as slots.
C15_HeaderDetectionFromColumn2 ==
    call.fn = "parseTimeSlots" =>
        LET r == HeaderRowFrom(call.args, 2)
        IN call.result = IF r = 0 THEN <<>> ELSE RowSlots(call.args[r], 2)

\* The first row has 4 matching cells, the second one is returned.
C15_Witness ==
    /\ call.fn = "parseTimeSlots"
    /\ Len(call.result) = 5
    /\ HeaderRowFrom(call.args, 2) = 2
    /\ call.result[1].start = [h |-> 2, m |-> 0, p |-> "AM"]

\* The courseCode a line resolves to: of "Name-X and Y (Location)" Name-X if
\* selected, else Name-Y if selected; of "Name-X (Location)" Name-X; of
\* "Name (Location)" Name.
ResolvedCode(line, selected) ==
    IF line.k = "combined"
    THEN (IF <<line.name, line.first>> \in selected THEN <<line.name, line.first>>
          ELSE IF <<line.name, line.second>> \in selected THEN <<line.name, line.second>>
          ELSE NoKey)
    ELSE IF line.k = "multi" THEN <<line.name, line.section>>
    ELSE IF line.k = "single" THEN <<line.name>>
    ELSE NoKey

\* Code, location and professor of an event.
Brief(e) == [courseCode |-> e.courseCode, location |-> e.location, professor |-> e.professor]

\* What the lines of a cell are to yield, in line order.
Expected(args) ==
    LET lines == CellLines(args.cellValue)
        profs == CellLines(args.professorCell)
        ks == SelectSeq([k \in 1..Len(lines) |-> k],
                        LAMBDA k : ResolvedCode(lines[k], args.selectedCourses) \in args.selectedCourses)
    IN [i \in 1..Len(ks) |->
          [courseCode |-> ResolvedCode(lines[ks[i]], args.selectedCourses),
           location |-> lines[ks[i]].location,
           professor |-> IF ks[i] <= Len(profs) THEN profs[ks[i]].text
                         ELSE IF profs # <<>> THEN profs[1].text ELSE ""]]

IsCellCall == call.fn \in {"parseCellEvents", "scraperParseCellEvents"}

\* C16: each line of a course cell whose resolved courseCode is selected yields
\* one event with the line's location, the other lines none, and the event of
\* line k has the professor of professor-cell line k, else of line 0, else "".
C16_SelectionAndProfessor ==
    IsCellCall => [i \in 1..Len(call.result) |-> Brief(call.result[i])] = Expected(call.args)

\* The same for cells without a combined-section line.
C16_WithoutCombinedLines ==
    (IsCellCall /\ \A i \in 1..Len(call.args.cellValue.lines) : call.args.cellValue.lines[i].k # "combined")
        => [i \in 1..Len(call.result) |-> Brief(call.result[i])] = Expected(call.args)

\* C17: a cell "Name-X and Y (Location)" yields one event, at Location, with
\* courseCode Name-X if Name-X is selected, else Name-Y if Name-Y is selected,
\* and no event if neither is.
C17_CombinedSection ==
    (IsCellCall /\ Len(call.args.cellValue.lines) = 1 /\ call.args.cellValue.lines[1].k = "combined")
        => LET line == call.args.cellValue.lines[1]
               code == ResolvedCode(line, call.args.selectedCourses)
           IN IF code = NoKey THEN call.result = <<>>
              ELSE /\ Len(call.result) = 1
                   /\ call.result[1].courseCode = code
                   /\ call.result[1].location = line.location

\* C17 for SheetScraperService.parseCellEvents alone.
C17_CombinedSectionScraper ==
    call.fn = "scraperParseCellEvents" => C17_CombinedSection

\* The red, green and blue of a color: the last three bytes of ARGB.
RgbOf(color) == SubSeq(color, Len(color) - 2, Len(color))

\* The font has a strikethrough marker and a color with R > 200, G < 50, B < 50.
StruckRed(font) ==
    /\ font.strike
    /\ Len(font.color) >= 3
    /\ RgbOf(font.color)[1] > 200 /\ RgbOf(font.color)[2] < 50 /\ RgbOf(font.color)[3] < 50

\* The font the format of a cell references, as a set: empty if the cell has no
\* format, the format no font, or either does not exist.
FontOfCell(a, cell) ==
    {a.fonts[a.cellXfs[cell.s + 1] + 1] :
        x \in {y \in {cell.s} : /\ y \in 0..(Len(a.cellXfs) - 1)
                                 /\ a.cellXfs[y + 1] \in 0..(Len(a.fonts) - 1)}}

Strategies == <<"tab", "default", "download">>

\* The strategies were tried in order, each after the one before it failed.
TriedInOrder ==
    /\ Len(fetch.attempts) <= 3
    /\ \A n \in 1..Len(fetch.attempts) :
          /\ fetch.attempts[n].strategy = Strategies[n]
          /\ n < Len(fetch.attempts) => fetch.attempts[n].outcome # "ok"
    /\ fetch.result = "data" => fetch.attempts[Len(fetch.attempts)].outcome = "ok"

\* C20 as stated: the strategies are tried in the order tab-qualified query,
\* default query, download; the first success is returned with no later
\* strategy tried; an error is thrown only after all three have failed.
C20_FallbackOrder ==
    /\ TriedInOrder
    /\ fetch.result = "error" =>
          (Len(fetch.attempts) = 3 /\ \A n \in 1..3 : fetch.attempts[n].outcome # "ok")

\* C20 as amended: an error is thrown after all three have failed, or after
\* the two queries have failed and the default query's error does not say that
\* the document is not supported.
C20_FallbackOrderUnlessOtherError ==
    /\ TriedInOrder
    /\ fetch.result = "error" =>
          /\ \A n \in 1..Len(fetch.attempts) : fetch.attempts[n].outcome # "ok"
          /\ \/ Len(fetch.attempts) = 3
             \/ Len(fetch.attempts) = 2 /\ fetch.attempts[2].outcome = "other"
    /\ Len(fetch.attempts) = 3 => fetch.attempts[2].outcome = "unsupported"

\* The download succeeded after both queries failed.
C20_Witness ==
    /\ fetch.result = "data"
    /\ Len(fetch.attempts) = 3
    /\ rawData.styles # {}

\* The cell of the fetched grid that holds a line with the given room.
CellOfRoom(location) ==
    CHOOSE rc \in (0..(Len(rawData.rows) - 1)) \X (0..7) :
        LET cell == CellAt(RowAt(rawData.rows, rc[1]), rc[2])
        IN cell.k = "lines" /\ \E n \in 1..Len(cell.lines) :
              cell.lines[n].k \in {"multi", "single"} /\ cell.lines[n].location = location

\* C13: an event parsed from the cell at (row, col) is cancelled, with status
\* "cancelled", if the cancellation map marks (row, col), and is not cancelled,
\* with status "active", otherwise; for the second pair of a day block at row
\* i that is (i + 2, col).
C13_CancellationMarking ==
    parsed.done =>
        \A n \in 1..Len(parsed.events) :
            LET e == parsed.events[n]
                marked == CellOfRoom(e.location) \in rawData.styles
            IN /\ e.isCancelled = marked
               /\ e.status = IF marked THEN "cancelled" ELSE "active"

\* The second pair's cell is marked and the first pair's is not.
C13_Witness ==
    /\ parsed.done
    /\ \E m, n \in 1..Len(parsed.events) :
          /\ parsed.events[m].location = "PT1" /\ ~parsed.events[m].isCancelled
          /\ parsed.events[n].location = "PT2" /\ parsed.events[n].isCancelled

\* The ids of the events of a parse.
IdsOf(p) == {p.events[n].id : n \in 1..Len(p.events)}

\* C14: two parses of the same fetched grid, at any two times, give the same
\* set of ScheduleEvent.id values and the same sorted course list.
C14_ReparseIdempotence ==
    (parsed.done /\ parsedBefore.done) =>
        /\ IdsOf(parsed) = IdsOf(parsedBefore)
        /\ parsed.courses = parsedBefore.courses

\* The same for grids whose day rows all follow a date row.
C14_ReparseIdempotenceDated ==
    (parsed.done /\ parsedBefore.done /\ rawData.rows[Len(rawData.rows) - 3][1].k = "date")
        => C14_ReparseIdempotence

\* A run has returned and none of its calls failed.
RanClean == pc = "done" /\ outcome = "returned" /\ ~Failed(sC) /\ ~Failed(sU) /\ ~Failed(sD)

\* The records of the calendar that carry the id of event e.
RecordsOf(e) == {id \in DOMAIN remote : remote[id].sid = e.id}

\* C23: after a run whose calls all succeeded, every active canonical event of
\* a selected course has exactly one record carrying its id, at its location,
\* and no other record written by this system is left in the listed window.
C23_MirrorPostCondition ==
    RanClean =>
        /\ \A e \in SeqRange(UserEvents(canonical, selectedCourses)) :
              /\ Cardinality(RecordsOf(e)) = 1
              /\ \A id \in RecordsOf(e) : remote[id].location = e.location
        /\ \A id \in Listed(remote) :
              remote[id].app =>
                  \E e \in SeqRange(UserEvents(canonical, selectedCourses)) : remote[id].sid = e.id

\* C24: no record is both the target of an update and in the delete set of a run.
C24_UpdateDeleteDisjoint == Planned => UpdateTargets \cap DeleteSet = {}

\* The record existingEventsMap holds for the id of e: 0 when there is none.
ExactRecord(e) ==
    IF ExactMatch(existing, e) = 0 THEN 0 ELSE existing[ExactMatch(existing, e)].id

\* C25: no record is the target of two entries of the update set, and the
\* exact-id match of one canonical event is not the target of an update that a
\* lower tier scheduled for another canonical event.
C25_OneUpdatePerRecord ==
    Planned =>
        /\ \A j, k \in 1..Len(eventsToUpdate) :
              eventsToUpdate[j].existing = eventsToUpdate[k].existing => j = k
        /\ \A k \in 1..Len(eventsToUpdate) : \A e \in SeqRange(userEvents) :
              (ExactRecord(eventsToUpdate[k].new) = 0 /\ e # eventsToUpdate[k].new)
                  => ExactRecord(e) # eventsToUpdate[k].existing

\* The entries of the update set for event e.
UpdatesOf(e) == {k \in 1..Len(eventsToUpdate) : eventsToUpdate[k].new = e}

\* C26: for an event e of the run and a record R that the calendar holds
\* with scheduleEventId = e.id when the run is planned: e is in the update
\* set, against R, exactly when R's location is not e's or R's description
\* lacks e's professor; e is not created and R is not deleted.
C26_ExactMatchTier ==
    Planned =>
        \A e \in SeqRange(userEvents) : \A id \in DOMAIN remote :
            (/\ remote[id].sid = e.id
             /\ Count(sC, "ok") = 0 /\ Count(sU, "ok") = 0 /\ Count(sD, "ok") = 0)
            => /\ (UpdatesOf(e) # {})
                    <=> (remote[id].location # e.location
                            \/ ~DescriptionIncludes(remote[id], e.professor))
               /\ \A k \in UpdatesOf(e) : eventsToUpdate[k].existing = id
               /\ e \notin CreateSet
               /\ id \notin DeleteSet

\* The same for R the record that existingEventsMap holds for e.id: the last
\* listed record carrying it.
C26_ExactMatchTierListed ==
    Planned =>
        \A e \in SeqRange(userEvents) :
            ExactMatch(existing, e) # 0 =>
                LET R == existing[ExactMatch(existing, e)]
                IN /\ (UpdatesOf(e) # {})
                        <=> (R.rec.location # e.location
                                \/ ~DescriptionIncludes(R.rec, e.professor))
                   /\ \A k \in UpdatesOf(e) : eventsToUpdate[k].existing = R.id
                   /\ e \notin CreateSet
                   /\ \A x \in SeqRange(existing) : x.rec.sid = e.id => x.id \notin DeleteSet

\* C27: a cancelled canonical event whose id a listed record carried when the
\* run started has no record carrying its id once the run has returned with
\* every call succeeded.
C27_CancellationRemoves ==
    RanClean =>
        \A e \in SeqRange(canonical) :
            (/\ e.isCancelled
             /\ \A a \in SeqRange(canonical) : a.id = e.id => a.isCancelled
             /\ \E x \in SeqRange(existing) : x.rec.sid = e.id)
            => RecordsOf(e) = {}

\* The same when no active event of a selected course shares the cancelled
\* event's course, date and slot start.
C27_CancellationRemovesSlot ==
    RanClean =>
        \A e \in SeqRange(canonical) :
            (/\ e.isCancelled
             /\ \A a \in SeqRange(canonical) : a.id = e.id => a.isCancelled
             /\ EventBaseKey(e) \notin NewBaseKeys
             /\ \E x \in SeqRange(existing) : x.rec.sid = e.id)
            => RecordsOf(e) = {}

\* C28: one parse emits no two events with the same id: no course row is
\* processed in two day blocks.
C28_OneBlockPerCell ==
    parsed.done =>
        \A m, n \in 1..Len(parsed.events) :
            parsed.events[m].id = parsed.events[n].id => m = n

\* The same for grids whose day names are not two rows apart.
C28_OneBlockPerCellFourRows ==
    (parsed.done /\ rawData.rows \notin TwoDayGrids) => C28_OneBlockPerCell

\* The header cell above column c of the fetched grid.
HeaderAbove(c) == CellAt(RowAt(rawData.rows, 0), c)

\* C29: the slot of an event parsed from column c is the slot of the header
\* cell of column c.
C29_SlotAlignment ==
    parsed.done =>
        \A n \in 1..Len(parsed.events) :
            LET c == CellOfRoom(parsed.events[n].location)[2]
            IN HasMatch(HeaderAbove(c)) =>
                  parsed.events[n].start = LastSlot(HeaderAbove(c)).start

\* The same for columns with a time range in every header column from 2 on.
C29_SlotAlignmentNoGap ==
    parsed.done =>
        \A n \in 1..Len(parsed.events) :
            LET c == CellOfRoom(parsed.events[n].location)[2]
            IN (\A b \in 2..c : HasMatch(HeaderAbove(b))) =>
                  parsed.events[n].start = LastSlot(HeaderAbove(c)).start

Running == userLoop.stage # "idle"

C22_CountsAccountForAll ==
    (Running /\ userLoop.stage = "finished") =>
        userLoop.successCount + userLoop.errorCount = Len(userLoop.users)

\* The same for dailyCalendarSync alone.
C22_CountsAccountForAllDaily ==
    (Running /\ userLoop.fn = "dailyCalendarSync") => C22_CountsAccountForAll

\* The invocations that passed the check in the span that ends at time t.
PassedIn(t, span) ==
    Cardinality({k \in 1..Len(limiter.passed) :
                    limiter.passed[k] > t - span /\ limiter.passed[k] <= t})

\* C30: in every one-hour window at most HourLimit invocations have passed the
\* check, in every 24-hour window at most DayLimit, and an invocation that was
\* turned away has written nothing.
C30_RateLimit ==
    /\ \A t \in 0..now : PassedIn(t, Hour) <= HourLimit /\ PassedIn(t, Day) <= DayLimit
    /\ \A s \in 1..MaxInvocations :
          limiter.inv[s].pc = "thrown" => limiter.inv[s].writes = 0

\* The same while no invocation has read the calls between another one's read
\* and the arrival of its write.
C30_RateLimitOneAtATime == ~limiter.overlapped => C30_RateLimit
====
